---- MODULE Spec2Model ----
(***************************************************************************)
(* Model of the library-management ETL: etl/normalize_data.py (field      *)
(* normalisation, author parsing, book and borrower table builders) and    *)
(* etl/load_data.py (the MySQL bulk loader).                                *)
(*                                                                         *)
(* A Python str is a sequence of one-character strings.  A missing value   *)
(* (pandas NA) is the one-element sequence NA, which is no character.      *)
(***************************************************************************)
EXTENDS Integers, Sequences, FiniteSets, TLC

VARIABLES pc, field, out, books_rows, book, authors, book_authors,
          borrower_rows, borrower, present, csv_rows, db, log, table, sent

vars == <<pc, field, out, books_rows, book, authors, book_authors,
          borrower_rows, borrower, present, csv_rows, db, log, table, sent>>

(***************************************************************************)
(* Characters and the str methods the code calls                           *)
(***************************************************************************)
NA == <<"<NA>">>

Lows == <<"a","b","c","d","e","f","g","h","i","j","k","l","m",
          "n","o","p","q","r","s","t","u","v","w","x","y","z">>

Ups == <<"A","B","C","D","E","F","G","H","I","J","K","L","M",
         "N","O","P","Q","R","S","T","U","V","W","X","Y","Z">>

Whitespace == {" ", "\t", "\n"}

ch_isspace(c) == c \in Whitespace

ch_islower(c) == \E i \in 1..Len(Lows) : Lows[i] = c

ch_isupper(c) == \E i \in 1..Len(Ups) : Ups[i] = c

ch_iscased(c) == ch_islower(c) \/ ch_isupper(c)

ch_lower(c) ==
    IF ch_isupper(c) THEN Lows[CHOOSE i \in 1..Len(Ups) : Ups[i] = c] ELSE c

ch_upper(c) ==
    IF ch_islower(c) THEN Ups[CHOOSE i \in 1..Len(Lows) : Lows[i] = c] ELSE c

\* str.lower()
str_lower(s) == [i \in 1..Len(s) |-> ch_lower(s[i])]

\* str.islower(): at least one cased character and no upper-case one
str_islower(s) ==
    /\ \E i \in 1..Len(s) : ch_islower(s[i])
    /\ \A i \in 1..Len(s) : ~ch_isupper(s[i])

\* str.isupper(): at least one cased character and no lower-case one
str_isupper(s) ==
    /\ \E i \in 1..Len(s) : ch_isupper(s[i])
    /\ \A i \in 1..Len(s) : ~ch_islower(s[i])

\* str.title(): a cased character is upper-cased when the character before it
\* is not cased, and lower-cased otherwise
str_title(s) ==
    [i \in 1..Len(s) |->
        IF i > 1 /\ ch_iscased(s[i-1]) THEN ch_lower(s[i]) ELSE ch_upper(s[i])]

\* str.strip(chars)
str_strip_chars(s, chars) ==
    LET keep == {i \in 1..Len(s) : s[i] \notin chars}
    IN  IF keep = {} THEN <<>>
        ELSE SubSeq(s, CHOOSE i \in keep : \A j \in keep : i <= j,
                       CHOOSE i \in keep : \A j \in keep : i >= j)

\* str.strip()
str_strip(s) == str_strip_chars(s, Whitespace)

\* str.replace(old, new) for a one-character old; new is a str
RECURSIVE str_replace(_, _, _)
str_replace(s, old, new) ==
    IF s = <<>> THEN <<>>
    ELSE (IF Head(s) = old THEN new ELSE <<Head(s)>>)
         \o str_replace(Tail(s), old, new)

\* the end of the whitespace run of s that starts at position i
\* (i itself when s[i] is no whitespace)
RECURSIVE ws_end(_, _)
ws_end(s, i) ==
    IF i <= Len(s) /\ ch_isspace(s[i]) THEN ws_end(s, i + 1) ELSE i

\* re.sub(r'\s+', ' ', s), scanning from position i
RECURSIVE sub_ws(_, _)
sub_ws(s, i) ==
    IF i > Len(s) THEN <<>>
    ELSE IF ch_isspace(s[i]) THEN <<" ">> \o sub_ws(s, ws_end(s, i))
    ELSE <<s[i]>> \o sub_ws(s, i + 1)

pd_isna(s) == s = NA

normalize_whitespace(s) ==
    IF pd_isna(s) THEN <<>> ELSE str_strip(sub_ws(s, 1))

title_case(s) ==
    LET n == normalize_whitespace(s)
    IN  IF n = <<>> THEN n
        ELSE IF str_islower(n) \/ str_isupper(n) THEN str_title(n) ELSE n

(***************************************************************************)
(* split_authors                                                           *)
(***************************************************************************)
\* the position just after a match of \s+(?i:and)\s+ that starts at i, or 0
\* when the pattern does not match at i
and_match(s, i) ==
    LET j == ws_end(s, i)
        k == ws_end(s, j + 3)
    IN  IF /\ j > i
           /\ j + 3 <= Len(s)
           /\ str_lower(SubSeq(s, j, j + 2)) = <<"a", "n", "d">>
           /\ k > j + 3
        THEN k ELSE 0

\* re.sub(r'\s+(?i:and)\s+', ',', s), scanning from position i: the leftmost
\* match is replaced and the scan resumes after it
RECURSIVE sub_and(_, _)
sub_and(s, i) ==
    IF i > Len(s) THEN <<>>
    ELSE IF and_match(s, i) # 0 THEN <<",">> \o sub_and(s, and_match(s, i))
    ELSE <<s[i]>> \o sub_and(s, i + 1)

Separators == {";", ",", "|"}

\* re.split(r'[;,|]', s): the parts between separators, empty ones included
RECURSIVE re_split(_, _)
re_split(s, cur) ==
    IF s = <<>> THEN <<cur>>
    ELSE IF Head(s) \in Separators THEN <<cur>> \o re_split(Tail(s), <<>>)
    ELSE re_split(Tail(s), Append(cur, Head(s)))

\* names = [title_case(p) for p in parts if normalize_whitespace(p)]
RECURSIVE clean_parts(_)
clean_parts(parts) ==
    IF parts = <<>> THEN <<>>
    ELSE (IF normalize_whitespace(Head(parts)) # <<>>
          THEN <<title_case(Head(parts))>> ELSE <<>>)
         \o clean_parts(Tail(parts))

\* mutant: names are remembered as written, so the comparison is case-sensitive
seen_key_case_sensitive(n) == n

\* the key under which a name is remembered as seen
seen_key(n) == str_lower(n)

\* the loop over names with the seen set
RECURSIVE dedup_names(_, _)
dedup_names(ns, seen) ==
    IF ns = <<>> THEN <<>>
    ELSE IF seen_key(Head(ns)) \in seen THEN dedup_names(Tail(ns), seen)
    ELSE <<Head(ns)>> \o dedup_names(Tail(ns), seen \cup {seen_key(Head(ns))})

\* the normalisation of the joiners and the split into parts
author_parts(raw) == re_split(str_replace(sub_and(raw, 1), "&", <<",">>), <<>>)

split_authors(f) ==
    IF pd_isna(f) \/ str_strip(f) = <<>> THEN <<>>
    ELSE dedup_names(clean_parts(author_parts(f)), {})

(***************************************************************************)
(* DataFrame helpers: a DataFrame is a sequence of records                 *)
(***************************************************************************)
\* the rows of df at the positions in keep, in their order
RECURSIVE select_rows(_, _, _)
select_rows(df, keep, i) ==
    IF i > Len(df) THEN <<>>
    ELSE (IF i \in keep THEN <<df[i]>> ELSE <<>>) \o select_rows(df, keep, i + 1)

\* mutant: keep='last', the last row of every key is kept
drop_duplicates_keep_last(df, keys) ==
    select_rows(df, {i \in 1..Len(df) : \A j \in (i+1)..Len(df) : keys[j] # keys[i]}, 1)

\* DataFrame.drop_duplicates(subset=...): keys[i] is row i's value on the
\* subset columns; the first row of every key is kept
drop_duplicates(df, keys) ==
    select_rows(df, {i \in 1..Len(df) : \A j \in 1..(i-1) : keys[j] # keys[i]}, 1)

\* DataFrame.sort_values('Author_id'): ascending
RECURSIVE sort_values(_)
sort_values(df) ==
    IF df = <<>> THEN <<>>
    ELSE LET m == CHOOSE i \in 1..Len(df) :
                      \A j \in 1..Len(df) :
                          \/ df[i].Author_id < df[j].Author_id
                          \/ (df[i].Author_id = df[j].Author_id /\ i <= j)
         IN  <<df[m]>> \o sort_values(select_rows(df, (1..Len(df)) \ {m}, 1))

(***************************************************************************)
(* process_books                                                           *)
(***************************************************************************)
\* bdf[col] = bdf[col].map(normalize_whitespace), for every column
normalize_book_columns(df) ==
    [i \in 1..Len(df) |->
        [ISBN10 |-> normalize_whitespace(df[i].ISBN10),
         Title  |-> normalize_whitespace(df[i].Title),
         Author |-> normalize_whitespace(df[i].Author)]]

\* mutant: rows without ISBN10 are kept
has_isbn10_any(r) == TRUE

\* bdf['ISBN10'].astype(str).str.len() > 0
has_isbn10(r) == Len(r.ISBN10) > 0

\* bdf = bdf[...]: the rows that have an ISBN10
drop_missing_isbn(df) == SelectSeq(df, has_isbn10)

\* book = bdf[['ISBN10', 'Title']] renamed to Isbn, Title
book_columns(bdf) ==
    [i \in 1..Len(bdf) |-> [Isbn |-> bdf[i].ISBN10, Title |-> bdf[i].Title]]

\* the subset=['Isbn'] column of the book frame
isbn_keys(df) == [i \in 1..Len(df) |-> df[i].Isbn]

\* mutant: the book frame keeps its duplicate ISBNs
book_table_keep_all(bdf) == book_columns(bdf)

\* book.drop_duplicates(subset=['Isbn']).reset_index(drop=True)
book_table(bdf) == drop_duplicates(book_columns(bdf), isbn_keys(book_columns(bdf)))

\* mutant: the registry is keyed by the name as written
author_key_case_sensitive(name) == name

\* key = name.lower()
author_key(name) == str_lower(name)

\* mutant: ids are counted from 0
next_author_id_zero_based(author_name_to_id) == Cardinality(DOMAIN author_name_to_id)

\* author_id = len(author_name_to_id) + 1
next_author_id(author_name_to_id) == Cardinality(DOMAIN author_name_to_id) + 1

\* one pass of the inner loop: st holds author_name_to_id, authors_rows and
\* book_authors_rows
add_author(st, isbn, name) ==
    LET key   == author_key(name)
        isnew == key \notin DOMAIN st.author_name_to_id
        map   == IF isnew
                 THEN st.author_name_to_id
                          @@ (key :> next_author_id(st.author_name_to_id))
                 ELSE st.author_name_to_id
    IN  [author_name_to_id |-> map,
         authors_rows |->
             IF isnew
             THEN Append(st.authors_rows, [Author_id |-> map[key], Name |-> name])
             ELSE st.authors_rows,
         book_authors_rows |->
             Append(st.book_authors_rows, [Isbn |-> isbn, Author_id |-> map[key]])]

\* for name in names
RECURSIVE add_authors(_, _, _)
add_authors(st, isbn, names) ==
    IF names = <<>> THEN st
    ELSE add_authors(add_author(st, isbn, Head(names)), isbn, Tail(names))

\* for _, row in bdf.iterrows()
RECURSIVE iterrows(_, _)
iterrows(st, bdf) ==
    IF bdf = <<>> THEN st
    ELSE iterrows(add_authors(st, Head(bdf).ISBN10, split_authors(Head(bdf).Author)),
                  Tail(bdf))

\* mutant: the links are not de-duplicated
book_authors_table_keep_all(book_authors_rows) == book_authors_rows

\* book_authors = DataFrame(book_authors_rows).drop_duplicates()
book_authors_table(book_authors_rows) ==
    drop_duplicates(book_authors_rows, book_authors_rows)

\* the three frames process_books returns
process_books(df) ==
    LET bdf == drop_missing_isbn(normalize_book_columns(df))
        st  == iterrows([author_name_to_id |-> <<>>, authors_rows |-> <<>>,
                         book_authors_rows |-> <<>>], bdf)
    IN  [book |-> book_table(bdf),
         authors |-> sort_values(st.authors_rows),
         book_authors |-> book_authors_table(st.book_authors_rows)]

(***************************************************************************)
(* process_borrowers                                                       *)
(***************************************************************************)
\* df[col] = df[col].map(normalize_whitespace), for every column
normalize_borrower_columns(df) ==
    [i \in 1..Len(df) |->
        [ID0000id   |-> normalize_whitespace(df[i].ID0000id),
         first_name |-> normalize_whitespace(df[i].first_name),
         last_name  |-> normalize_whitespace(df[i].last_name),
         address    |-> normalize_whitespace(df[i].address),
         city       |-> normalize_whitespace(df[i].city),
         state      |-> normalize_whitespace(df[i].state),
         phone      |-> normalize_whitespace(df[i].phone),
         ssn        |-> normalize_whitespace(df[i].ssn)]]

\* (first_name + ' ' + last_name).str.strip().map(title_case)
compose_bname(first_name, last_name) ==
    title_case(str_strip(first_name \o <<" ">> \o last_name))

\* (address + ', ' + city + ', ' + state).str.strip(' ,')
compose_address(address, city, state) ==
    str_strip_chars(address \o <<",", " ">> \o city \o <<",", " ">> \o state,
                    {" ", ","})

\* df['ssn'].str.replace('-', '', regex=False)
compose_ssn(ssn) == str_replace(ssn, "-", <<>>)

\* the composed columns of one row
borrower_columns(r) ==
    [Card_id |-> r.ID0000id,
     Bname   |-> compose_bname(r.first_name, r.last_name),
     Address |-> compose_address(r.address, r.city, r.state),
     Phone   |-> r.phone,
     Ssn     |-> compose_ssn(r.ssn)]

\* the subset=['Card_id'] column of the borrower frame
card_id_keys(df) == [i \in 1..Len(df) |-> df[i].Card_id]

\* df[[...]].drop_duplicates(subset=['Card_id']).reset_index(drop=True)
borrower_table(df) == drop_duplicates(df, card_id_keys(df))

process_borrowers(df) ==
    LET ndf == normalize_borrower_columns(df)
    IN  borrower_table([i \in 1..Len(ndf) |-> borrower_columns(ndf[i])])

(***************************************************************************)
(* normalize_data.main: the books file, then the borrowers file            *)
(***************************************************************************)
MaxBookRows == 2

MaxBorrowerRows == 2

IsbnInputs == { <<>>, <<" ">>, <<"1">>, <<" ", "1">>, <<"2">> }

TitleInputs == { <<"t">>, <<"u">> }

AuthorInputs ==
    { <<>>,
      <<"a", "b">>,
      <<"a", "B", ",", " ", "c">>,
      <<"c", " ", "a", "n", "d", " ", "A", "B">> }

BookRowInputs ==
    [ISBN10 : IsbnInputs, Title : TitleInputs, Author : AuthorInputs]

BooksFileInputs == UNION { [1..n -> BookRowInputs] : n \in 0..MaxBookRows }

BorrowerRowInputs ==
    { [ID0000id |-> id, first_name |-> nm[1], last_name |-> nm[2],
       address |-> ad[1], city |-> ad[2], state |-> <<"I", "L">>,
       phone |-> <<"5">>, ssn |-> ad[3]] :
      id \in { <<"1">>, <<" ", "1">>, <<"2">> },
      nm \in { << <<"j","a","n","e">>, <<"D","O","E">> >>,
               << <<"J","A","N","E">>, <<"D","O","E">> >>,
               << <<>>, <<"M","c","D">> >> },
      ad \in { << <<"1"," ","m">>, <<"s">>, <<"1","-","2">> >>,
               << <<>>, <<>>, <<"3">> >> } }

BorrowersFileInputs ==
    UNION { [1..n -> BorrowerRowInputs] : n \in 0..MaxBorrowerRows }

\* a books file with one ISBN10 on two rows under different titles
SampleBooksFile ==
    << [ISBN10 |-> <<"1">>, Title |-> <<"t">>, Author |-> <<"a", "b">>],
       [ISBN10 |-> <<"1">>, Title |-> <<"u">>, Author |-> <<"A", "B">>] >>

\* a borrowers file with one id on two rows that differ in every other field
SampleBorrowersFile ==
    << [ID0000id |-> <<"1">>, first_name |-> <<"j","a","n","e">>,
        last_name |-> <<"d","o","e">>, address |-> <<"1"," ","m">>,
        city |-> <<"s">>, state |-> <<"I","L">>, phone |-> <<"5">>,
        ssn |-> <<"1","-","2">>],
       [ID0000id |-> <<"1">>, first_name |-> <<"J","O","H","N">>,
        last_name |-> <<"R","O","E">>, address |-> <<"2"," ","n">>,
        city |-> <<"t">>, state |-> <<"T","X">>, phone |-> <<"6">>,
        ssn |-> <<"3","-","4">>] >>

\* the books file is arbitrary and the borrowers file empty, or the books file
\* is the sample and the borrowers file arbitrary
InitMain ==
    /\ pc = "process_books"
    /\ \/ books_rows \in BooksFileInputs /\ borrower_rows = <<>>
       \/ books_rows = SampleBooksFile /\ borrower_rows \in BorrowersFileInputs
    /\ book = <<>> /\ authors = <<>> /\ book_authors = <<>>
    /\ borrower = <<>>
    /\ field = NA /\ out = <<>>
    /\ present = {} /\ csv_rows = <<>> /\ db = <<>> /\ log = <<>>
    /\ table = 0 /\ sent = 0

ProcessBooks ==
    /\ pc = "process_books"
    /\ LET r == process_books(books_rows)
       IN  /\ book' = r.book
           /\ authors' = r.authors
           /\ book_authors' = r.book_authors
    /\ pc' = "process_borrowers"
    /\ UNCHANGED <<field, out, books_rows, borrower_rows, borrower,
                   present, csv_rows, db, log, table, sent>>

ProcessBorrowers ==
    /\ pc = "process_borrowers"
    /\ borrower' = process_borrowers(borrower_rows)
    /\ pc' = "to_csv"
    /\ UNCHANGED <<field, out, books_rows, book, authors, book_authors,
                   borrower_rows, present, csv_rows, db, log, table, sent>>

NextMain == ProcessBooks \/ ProcessBorrowers

SpecMain == InitMain /\ [][NextMain]_vars

(***************************************************************************)
(* split_authors on its own: the field is any concatenation of at most     *)
(* MaxTokens tokens, one of the example fields, or the missing value        *)
(***************************************************************************)
MaxTokens == 5

Tokens == { <<"a">>, <<"A">>, <<"b">>, <<" ">>, <<",">>, <<"a", "n", "d">> }

RECURSIVE concat(_)
concat(ts) == IF ts = <<>> THEN <<>> ELSE Head(ts) \o concat(Tail(ts))

TokenFields ==
    UNION { { concat(ts) : ts \in [1..n -> Tokens] } : n \in 0..MaxTokens }

JaneDoe == <<"J","a","n","e"," ","D","o","e">>

JohnSmith == <<"J","o","h","n"," ","S","m","i","t","h">>

ExampleFields ==
    { JaneDoe \o <<" ","a","n","d"," ">> \o JohnSmith,
      JaneDoe \o <<";"," ","j","a","n","e"," ","d","o","e",","," ",
                   "J","A","N","E"," ","D","O","E">>,
      <<"A"," ","a","n","d"," ","a","n","d"," ","B">>,
      <<"a","\t","A","N","D","\n","b"," ","&"," ","c","|","d">>,
      <<"M","c","D","o","n","a","l","d",";">> \o JaneDoe
          \o <<",","M","C","D","O","N","A","L","D">>,
      <<" ",";","|"," ",","," ","&"," ">> }

FieldInputs == TokenFields \cup ExampleFields \cup {NA}

InitSplit ==
    /\ pc = "split_authors"
    /\ field \in FieldInputs
    /\ out = <<>>
    /\ books_rows = <<>> /\ book = <<>> /\ authors = <<>> /\ book_authors = <<>>
    /\ borrower_rows = <<>> /\ borrower = <<>>
    /\ present = {} /\ csv_rows = <<>> /\ db = <<>> /\ log = <<>>
    /\ table = 0 /\ sent = 0

SplitAuthors ==
    /\ pc = "split_authors"
    /\ out' = split_authors(field)
    /\ pc' = "done"
    /\ UNCHANGED <<field, books_rows, book, authors, book_authors,
                   borrower_rows, borrower, present, csv_rows, db, log, table, sent>>

NextSplit == SplitAuthors

SpecSplit == InitSplit /\ [][NextSplit]_vars

(***************************************************************************)
(* load_data.main: the loader.  db[t] is the number of rows in table t,    *)
(* present the tables whose CSV file exists, csv_rows[t] the number of     *)
(* rows of that file, table the position in the load order of the load_csv *)
(* call under way, sent the number of its rows handed to executemany, and  *)
(* log the statements and returns so far.  Any statement may raise a MySQL *)
(* Error.                                                                  *)
(***************************************************************************)
MaxCsvRows == 3

\* the batch_size of load_csv, scaled down from the default of 1000
batch_size == 2

\* the calls of load_csv in main, in order
LoadOrder == <<"BOOK", "AUTHORS", "BOOK_AUTHORS", "BORROWER">>

\* the TRUNCATE statements of truncate_tables, in order
TruncateOrder == <<"BOOK_AUTHORS", "AUTHORS", "BOOK", "BORROWER">>

Tables == {LoadOrder[i] : i \in 1..Len(LoadOrder)}

Event(ev, t) == [ev |-> ev, table |-> t]

InitLoad ==
    /\ pc = "get_connection"
    /\ present \in SUBSET Tables
    /\ csv_rows \in [Tables -> 0..MaxCsvRows]
    /\ \A t \in Tables : t \notin present => csv_rows[t] = 0
    /\ \E prior \in 0..1 : db = [t \in Tables |-> prior]
    /\ log = <<>>
    /\ table = 0 /\ sent = 0
    /\ field = NA /\ out = <<>>
    /\ books_rows = <<>> /\ book = <<>> /\ authors = <<>> /\ book_authors = <<>>
    /\ borrower_rows = <<>> /\ borrower = <<>>

\* what the loader leaves alone
NotLoaderState ==
    UNCHANGED <<field, out, books_rows, book, authors, book_authors,
                borrower_rows, borrower, present, csv_rows>>

\* get_connection returns a connection
GetConnection ==
    /\ pc = "get_connection"
    /\ pc' = "truncate_tables"
    /\ UNCHANGED <<db, log, table, sent>>
    /\ NotLoaderState

\* get_connection: connect raises, the process exits with status 1
ConnectionError ==
    /\ pc = "get_connection"
    /\ pc' = "exit"
    /\ UNCHANGED <<db, log, table, sent>>
    /\ NotLoaderState

\* truncate_tables runs to its end
TruncateTables ==
    /\ pc = "truncate_tables"
    /\ db' = [t \in Tables |-> 0]
    /\ log' = log \o [i \in 1..Len(TruncateOrder) |-> Event("truncate", TruncateOrder[i])]
    /\ table' = 1 /\ sent' = 0
    /\ pc' = "load_csv"
    /\ NotLoaderState

\* truncate_tables: a statement raises after n tables were truncated
TruncateError ==
    /\ pc = "truncate_tables"
    /\ \E n \in 0..Len(TruncateOrder) :
          /\ db' = [t \in Tables |->
                       IF \E i \in 1..n : TruncateOrder[i] = t THEN 0 ELSE db[t]]
          /\ log' = log \o [i \in 1..n |-> Event("truncate", TruncateOrder[i])]
                        \o <<Event("Error", "-")>>
    /\ pc' = "except"
    /\ UNCHANGED <<table, sent>>
    /\ NotLoaderState

\* where main goes on when the load_csv call at position i has returned
after_load(i) == IF i < Len(LoadOrder) THEN "load_csv" ELSE "commit"

\* mutant: a missing file is fatal
missing_file_raises(i) == "except"

\* where control goes when load_csv finds no file at csv_path: it returns
missing_file_pc(i) == after_load(i)

\* load_csv: the file does not exist
LoadMissing ==
    /\ pc = "load_csv"
    /\ LoadOrder[table] \notin present
    /\ log' = Append(log, Event("skip", LoadOrder[table]))
    /\ pc' = missing_file_pc(table)
    /\ table' = table + 1 /\ sent' = 0
    /\ UNCHANGED db
    /\ NotLoaderState

\* the number of rows of the next executemany: a full batch from inside the
\* loop, or what is left after it
next_batch(n) == IF n >= batch_size THEN batch_size ELSE n

\* load_csv: cursor.executemany(insert_sql, rows)
ExecuteMany ==
    /\ pc = "load_csv"
    /\ LoadOrder[table] \in present
    /\ sent < csv_rows[LoadOrder[table]]
    /\ LET n == next_batch(csv_rows[LoadOrder[table]] - sent)
       IN  /\ db' = [db EXCEPT ![LoadOrder[table]] = @ + n]
           /\ sent' = sent + n
    /\ log' = Append(log, Event("insert", LoadOrder[table]))
    /\ UNCHANGED <<pc, table>>
    /\ NotLoaderState

\* load_csv: executemany raises
ExecuteManyError ==
    /\ pc = "load_csv"
    /\ LoadOrder[table] \in present
    /\ sent < csv_rows[LoadOrder[table]]
    /\ log' = Append(log, Event("Error", LoadOrder[table]))
    /\ pc' = "except"
    /\ UNCHANGED <<db, table, sent>>
    /\ NotLoaderState

\* load_csv: the file is read to its end and the call returns
LoadReturn ==
    /\ pc = "load_csv"
    /\ LoadOrder[table] \in present
    /\ sent = csv_rows[LoadOrder[table]]
    /\ log' = Append(log, Event("loaded", LoadOrder[table]))
    /\ pc' = after_load(table)
    /\ table' = table + 1 /\ sent' = 0
    /\ UNCHANGED db
    /\ NotLoaderState

\* conn.commit()
Commit ==
    /\ pc = "commit"
    /\ log' = Append(log, Event("commit", "-"))
    /\ pc' = "finally"
    /\ UNCHANGED <<db, table, sent>>
    /\ NotLoaderState

\* conn.commit() raises
CommitError ==
    /\ pc = "commit"
    /\ log' = Append(log, Event("Error", "-"))
    /\ pc' = "except"
    /\ UNCHANGED <<db, table, sent>>
    /\ NotLoaderState

\* except Error: conn.rollback() undoes the inserts; a TRUNCATE is not undone
Rollback ==
    /\ pc = "except"
    /\ db' = [t \in Tables |->
                 IF \E i \in 1..Len(log) : log[i] = Event("insert", t)
                 THEN 0 ELSE db[t]]
    /\ log' = Append(log, Event("rollback", "-"))
    /\ pc' = "finally"
    /\ UNCHANGED <<table, sent>>
    /\ NotLoaderState

\* finally: cursor.close(); conn.close()
Close ==
    /\ pc = "finally"
    /\ pc' = "closed"
    /\ UNCHANGED <<db, log, table, sent>>
    /\ NotLoaderState

NextLoad ==
    \/ GetConnection \/ ConnectionError
    \/ TruncateTables \/ TruncateError
    \/ LoadMissing \/ ExecuteMany \/ ExecuteManyError \/ LoadReturn
    \/ Commit \/ CommitError \/ Rollback \/ Close

SpecLoad == InitLoad /\ [][NextLoad]_vars

(***************************************************************************)
(* Properties of split_authors                                             *)
(***************************************************************************)
\* the letters "and", in any casing, stand at positions j..j+2 of s
AndAt(s, j) ==
    j + 2 <= Len(s) /\ str_lower(SubSeq(s, j, j + 2)) = <<"a", "n", "d">>

\* the "and" at j has whitespace right before it and right after it
WhitespaceDelimited(s, j) ==
    /\ j > 1 /\ s[j-1] \in Whitespace
    /\ j + 3 <= Len(s) /\ s[j+3] \in Whitespace

\* C6: split_authors treats every whitespace-delimited "and", in any casing,
\* as an author separator.  When every "and" of the field is whitespace-
\* delimited (so that an "and" in a returned name can only be one of them),
\* no returned name contains "and"; and "Jane Doe and John Smith" yields
\* ["Jane Doe", "John Smith"].
C6_AndAlwaysSeparates ==
    pc = "done" /\ field # NA =>
        /\ (\A j \in 1..Len(field) : AndAt(field, j) => WhitespaceDelimited(field, j))
              => \A k \in 1..Len(out) : \A j \in 1..Len(out[k]) : ~AndAt(out[k], j)
        /\ field = JaneDoe \o <<" ","a","n","d"," ">> \o JohnSmith
              => out = <<JaneDoe, JohnSmith>>

\* the cleaned, non-empty parts of the field, in the order of the split
SplitSequence(f) == IF f = NA THEN <<>> ELSE clean_parts(author_parts(f))

\* the first position of ns holding a name equal to n after lower-casing
FirstIndex(ns, n) ==
    CHOOSE i \in 1..Len(ns) :
        /\ str_lower(ns[i]) = str_lower(n)
        /\ \A j \in 1..(i-1) : str_lower(ns[j]) # str_lower(n)

\* C7: the list split_authors returns holds no empty string and no two
\* entries equal after lower-casing; it lists every name of the split
\* sequence once, in the order of first occurrence and with the casing of that
\* first occurrence; a missing, blank or separators-and-whitespace-only field
\* yields the empty list.
C7_DedupFirstOccurrence ==
    pc = "done" =>
        LET ns == SplitSequence(field)
        IN  /\ \A k \in 1..Len(out) : out[k] # <<>>
            /\ \A k, l \in 1..Len(out) :
                  k # l => str_lower(out[k]) # str_lower(out[l])
            /\ \A i \in 1..Len(ns) :
                  \E k \in 1..Len(out) : str_lower(out[k]) = str_lower(ns[i])
            /\ \A k \in 1..Len(out) :
                  /\ \E i \in 1..Len(ns) : str_lower(ns[i]) = str_lower(out[k])
                  /\ out[k] = ns[FirstIndex(ns, out[k])]
            /\ \A k, l \in 1..Len(out) :
                  k < l => FirstIndex(ns, out[k]) < FirstIndex(ns, out[l])
            /\ (field = NA \/ \A i \in 1..Len(field) :
                    field[i] \in Whitespace \cup Separators \cup {"&"})
                  => out = <<>>

\* a field naming one author twice in different casings and another author
\* in between has been split
C7_Witness ==
    /\ pc = "done"
    /\ Len(out) = 2
    /\ LET ns == SplitSequence(field)
       IN  /\ Len(ns) = 3
           /\ str_lower(ns[1]) = str_lower(ns[3])
           /\ ns[1] # ns[3]

(***************************************************************************)
(* Properties of process_books and process_borrowers                       *)
(***************************************************************************)
Processed == pc = "to_csv"

\* input row i of the books file has an ISBN10 after normalisation
Survives(i) == normalize_whitespace(books_rows[i].ISBN10) # <<>>

\* the author occurrences of rows i.. of the books file: for every surviving
\* row in input order, the names parsed from its Author field left to right,
\* each with its row, its ISBN10 and its lower-cased form
RECURSIVE OccurrencesFrom(_)
OccurrencesFrom(i) ==
    IF i > Len(books_rows) THEN <<>>
    ELSE LET ns == split_authors(normalize_whitespace(books_rows[i].Author))
         IN  (IF Survives(i)
              THEN [k \in 1..Len(ns) |->
                       [row |-> i, name |-> ns[k], key |-> str_lower(ns[k]),
                        isbn |-> normalize_whitespace(books_rows[i].ISBN10)]]
              ELSE <<>>)
             \o OccurrencesFrom(i + 1)

\* the position in occ of the first occurrence of key, 0 when there is none
FirstOccurrence(occ, key) ==
    IF \E o \in 1..Len(occ) : occ[o].key = key
    THEN CHOOSE o \in 1..Len(occ) :
             /\ occ[o].key = key
             /\ \A p \in 1..(o-1) : occ[p].key # key
    ELSE 0

\* C1: the Author_id values of the authors table are exactly 1..N, without
\* repeats, and are ordered by first appearance: an author whose first
\* occurrence comes before another's has the smaller Author_id.
C1_DenseIdsInFirstSeenOrder ==
    Processed =>
        LET occ == OccurrencesFrom(1)
            first == [k \in 1..Len(authors) |->
                         FirstOccurrence(occ, str_lower(authors[k].Name))]
        IN  /\ {authors[k].Author_id : k \in 1..Len(authors)} = 1..Len(authors)
            /\ \A k, l \in 1..Len(authors) :
                  k # l => authors[k].Author_id # authors[l].Author_id
            /\ \A k, l \in 1..Len(authors) :
                  first[k] # 0 /\ first[l] # 0 /\ first[k] < first[l]
                      => authors[k].Author_id < authors[l].Author_id

\* two authors were registered over two rows, the second row naming a known
\* author before a new one
C1_Witness ==
    /\ Processed
    /\ Len(authors) = 2
    /\ LET occ == OccurrencesFrom(1)
       IN  \E o, p \in 1..Len(occ) :
              /\ occ[o].row = 2 /\ occ[p].row = 2 /\ o < p
              /\ FirstOccurrence(occ, occ[o].key) < o
              /\ FirstOccurrence(occ, occ[p].key) = p

\* C2: the authors table holds exactly one row per distinct case-insensitive
\* author name of the surviving rows: no two rows have names equal after
\* lower-casing, every parsed name has a row, every row is a parsed name, and
\* the stored Name is the first occurrence of that name, in its casing.
C2_OneRowPerNameFirstCasing ==
    Processed =>
        LET occ == OccurrencesFrom(1)
        IN  /\ \A k, l \in 1..Len(authors) :
                  k # l => str_lower(authors[k].Name) # str_lower(authors[l].Name)
            /\ \A o \in 1..Len(occ) :
                  \E k \in 1..Len(authors) : str_lower(authors[k].Name) = occ[o].key
            /\ \A k \in 1..Len(authors) :
                  LET f == FirstOccurrence(occ, str_lower(authors[k].Name))
                  IN  f # 0 /\ authors[k].Name = occ[f].name

\* one author was named in two different casings and is stored once, in the
\* casing of the first occurrence
C2_Witness ==
    /\ Processed
    /\ LET occ == OccurrencesFrom(1)
       IN  \E o, p \in 1..Len(occ) :
              /\ o < p
              /\ occ[o].key = occ[p].key
              /\ occ[o].name # occ[p].name
              /\ FirstOccurrence(occ, occ[o].key) = o
              /\ \E k \in 1..Len(authors) : authors[k].Name = occ[o].name
              /\ \A k \in 1..Len(authors) : authors[k].Name # occ[p].name

\* C3: book_authors holds no two rows with the same (Isbn, Author_id) pair,
\* and it holds the pair (Isbn, Author_id) of every name parsed from every
\* surviving row.
C3_LinksUniqueAndComplete ==
    Processed =>
        LET occ == OccurrencesFrom(1)
        IN  /\ \A k, l \in 1..Len(book_authors) :
                  k # l => book_authors[k] # book_authors[l]
            /\ \A o \in 1..Len(occ) :
                  \E k \in 1..Len(book_authors), a \in 1..Len(authors) :
                      /\ str_lower(authors[a].Name) = occ[o].key
                      /\ book_authors[k].Isbn = occ[o].isbn
                      /\ book_authors[k].Author_id = authors[a].Author_id

\* two rows with the same ISBN10 named the same author in different casings:
\* one link stands for both
C3_Witness ==
    /\ Processed
    /\ LET occ == OccurrencesFrom(1)
       IN  /\ Len(occ) > Len(book_authors)
           /\ \E o, p \in 1..Len(occ) :
                  /\ occ[o].row # occ[p].row
                  /\ occ[o].isbn = occ[p].isbn
                  /\ occ[o].key = occ[p].key
                  /\ occ[o].name # occ[p].name

\* the books file without its rows that have no ISBN10 after normalisation
WithoutMissingIsbn == select_rows(books_rows, {i \in 1..Len(books_rows) : Survives(i)}, 1)

\* C4: a row whose ISBN10 is empty after whitespace normalisation contributes
\* nothing: no book row and no book_authors row has an empty Isbn, every
\* author record is named on a surviving row, the number of Author_ids is the
\* number of distinct names of the surviving rows, and the three tables are
\* those of the file without such rows.
C4_MissingIsbnContributesNothing ==
    Processed =>
        LET occ == OccurrencesFrom(1)
        IN  /\ \A k \in 1..Len(book) : book[k].Isbn # <<>>
            /\ \A k \in 1..Len(book_authors) : book_authors[k].Isbn # <<>>
            /\ \A k \in 1..Len(authors) :
                  \E o \in 1..Len(occ) : occ[o].key = str_lower(authors[k].Name)
            /\ Len(authors) = Cardinality({occ[o].key : o \in 1..Len(occ)})
            /\ [book |-> book, authors |-> authors, book_authors |-> book_authors]
                  = process_books(WithoutMissingIsbn)

\* a row without ISBN10 named an author no surviving row names, next to a
\* surviving row with an author
C4_Witness ==
    /\ Processed
    /\ Len(authors) >= 1
    /\ \E i \in 1..Len(books_rows) :
          /\ ~Survives(i)
          /\ LET ns == split_authors(normalize_whitespace(books_rows[i].Author))
             IN  \E k \in 1..Len(ns) :
                     \A a \in 1..Len(authors) :
                         str_lower(ns[k]) # str_lower(authors[a].Name)

\* the first input row of the borrowers file whose normalised id is card_id,
\* 0 when there is none
FirstBorrowerRow(card_id) ==
    IF \E i \in 1..Len(borrower_rows) :
           normalize_whitespace(borrower_rows[i].ID0000id) = card_id
    THEN CHOOSE i \in 1..Len(borrower_rows) :
             /\ normalize_whitespace(borrower_rows[i].ID0000id) = card_id
             /\ \A j \in 1..(i-1) :
                   normalize_whitespace(borrower_rows[j].ID0000id) # card_id
    ELSE 0

\* s is all lower-case or all upper-case
OneCase(s) == str_islower(s) \/ str_isupper(s)

\* every word of s is a capital letter followed by lower-case letters
Capitalised(s) ==
    \A i \in 1..Len(s) :
        s[i] # " " =>
            IF i = 1 \/ s[i-1] = " " THEN ch_isupper(s[i]) ELSE ch_islower(s[i])

\* C5: Bname is the title-cased "First Last": whenever first_name and
\* last_name are each all lower-case or all upper-case, every word of Bname
\* is a capital letter followed by lower-case letters; first_name "jane" and
\* last_name "DOE" give "Jane Doe".
C5_BnameTitleCased ==
    Processed =>
        \A k \in 1..Len(borrower) :
            LET i == FirstBorrowerRow(borrower[k].Card_id)
                first_name == normalize_whitespace(borrower_rows[i].first_name)
                last_name  == normalize_whitespace(borrower_rows[i].last_name)
            IN  i # 0 =>
                  /\ OneCase(first_name) /\ OneCase(last_name)
                        => Capitalised(borrower[k].Bname)
                  /\ first_name = <<"j","a","n","e">> /\ last_name = <<"D","O","E">>
                        => borrower[k].Bname = JaneDoe

\* the first input row of the books file whose normalised ISBN10 is isbn, 0
\* when there is none
FirstBookRow(isbn) ==
    IF \E i \in 1..Len(books_rows) : normalize_whitespace(books_rows[i].ISBN10) = isbn
    THEN CHOOSE i \in 1..Len(books_rows) :
             /\ normalize_whitespace(books_rows[i].ISBN10) = isbn
             /\ \A j \in 1..(i-1) :
                   normalize_whitespace(books_rows[j].ISBN10) # isbn
    ELSE 0

\* the borrower record composed from one input row
ComposedBorrower(r) ==
    borrower_columns(normalize_borrower_columns(<<r>>)[1])

\* C8: duplicate keys are resolved by first occurrence: the book table has
\* exactly one row per distinct non-empty normalised ISBN10, with the Title
\* of the first input row of that ISBN10; the borrower table has exactly one
\* row per distinct Card_id, with the Bname, Address, Phone and Ssn of the
\* first input row of that id; rows keep the order of the first occurrences.
C8_FirstOccurrenceWins ==
    Processed =>
        /\ \A k, l \in 1..Len(book) : k # l => book[k].Isbn # book[l].Isbn
        /\ {book[k].Isbn : k \in 1..Len(book)}
              = {normalize_whitespace(books_rows[i].ISBN10) :
                     i \in 1..Len(books_rows)} \ {<<>>}
        /\ \A k \in 1..Len(book) :
              LET i == FirstBookRow(book[k].Isbn)
              IN  i # 0 /\ book[k].Title = normalize_whitespace(books_rows[i].Title)
        /\ \A k, l \in 1..Len(book) :
              k < l => FirstBookRow(book[k].Isbn) < FirstBookRow(book[l].Isbn)
        /\ \A k, l \in 1..Len(borrower) :
              k # l => borrower[k].Card_id # borrower[l].Card_id
        /\ {borrower[k].Card_id : k \in 1..Len(borrower)}
              = {normalize_whitespace(borrower_rows[i].ID0000id) :
                     i \in 1..Len(borrower_rows)}
        /\ \A k \in 1..Len(borrower) :
              LET i == FirstBorrowerRow(borrower[k].Card_id)
              IN  i # 0 /\ borrower[k] = ComposedBorrower(borrower_rows[i])
        /\ \A k, l \in 1..Len(borrower) :
              k < l => FirstBorrowerRow(borrower[k].Card_id)
                           < FirstBorrowerRow(borrower[l].Card_id)

\* an ISBN10 stood on two rows under different titles, and a card id stood on
\* two rows that compose different borrower records
C8_Witness ==
    /\ Processed
    /\ \E i, j \in 1..Len(books_rows) :
          /\ i < j
          /\ Survives(i)
          /\ normalize_whitespace(books_rows[i].ISBN10)
                = normalize_whitespace(books_rows[j].ISBN10)
          /\ books_rows[i].Title # books_rows[j].Title
    /\ \E i, j \in 1..Len(borrower_rows) :
          /\ i < j
          /\ normalize_whitespace(borrower_rows[i].ID0000id)
                = normalize_whitespace(borrower_rows[j].ID0000id)
          /\ ComposedBorrower(borrower_rows[i]).Bname
                # ComposedBorrower(borrower_rows[j]).Bname
          /\ ComposedBorrower(borrower_rows[i]).Ssn
                # ComposedBorrower(borrower_rows[j]).Ssn
          /\ \E k \in 1..Len(borrower) :
                borrower[k] = ComposedBorrower(borrower_rows[i])

\* C10: every Isbn of book_authors is the Isbn of exactly one book row, every
\* Author_id of book_authors is the Author_id of exactly one authors row, and
\* every authors row is referenced by at least one book_authors row.
C10_ReferentialConsistency ==
    Processed =>
        /\ \A k \in 1..Len(book_authors) :
              /\ Cardinality({b \in 1..Len(book) :
                                 book[b].Isbn = book_authors[k].Isbn}) = 1
              /\ Cardinality({a \in 1..Len(authors) :
                                 authors[a].Author_id = book_authors[k].Author_id}) = 1
        /\ \A a \in 1..Len(authors) :
              \E k \in 1..Len(book_authors) :
                  book_authors[k].Author_id = authors[a].Author_id

\* two books share an author
C10_Witness ==
    /\ Processed
    /\ Len(book) = 2
    /\ \E k, l \in 1..Len(book_authors) :
          /\ book_authors[k].Isbn # book_authors[l].Isbn
          /\ book_authors[k].Author_id = book_authors[l].Author_id

(***************************************************************************)
(* Properties of the loader                                                *)
(***************************************************************************)
\* the position of table t in the order book, authors, book_authors, borrower
Rank(t) ==
    CASE t = "BOOK" -> 1 [] t = "AUTHORS" -> 2
      [] t = "BOOK_AUTHORS" -> 3 [] t = "BORROWER" -> 4

====
